---- MODULE Spec2Model ----
(***************************************************************************)
(* The ingestion / orchestration core of the ETL system:                   *)
(*   ingestion/coinpaprika.py, ingestion/coingecko.py,                     *)
(*   ingestion/csv_source.py, ingestion/orchestrator.py, core/database.py. *)
(*                                                                         *)
(* The database is the committed content of the four tables.  Every        *)
(* run_all invocation owns one SQLAlchemy session (orchestrator.py:33)     *)
(* that its three ingestors share.  A commit that raises leaves the        *)
(* session's transaction rolled back and inactive; the code never calls    *)
(* rollback(), so every later query or commit on that session raises too.  *)
(* One action is one database round trip (or the fetch) of ingest().       *)
(***************************************************************************)
EXTENDS Integers, Sequences, FiniteSets, TLC

\* ---------------------------------------------------------------- bounds
MaxInvocations == 2      \* run_all invocations in one behaviour
MaxFetched == 2          \* entities all fetches of one behaviour return
MaxFaults == 1           \* storage faults injected in one behaviour
MaxTime == 1             \* last clock tick
TicksPerSecond == 1      \* clock ticks per wall-clock second
MaxBatchFetched == 51    \* entities one fetch returns in SpecBatch
MaxExcess == 1           \* how far source numbers lie outside [0, NumericLimit]
MaxCell == 2             \* largest number in a cell of a csv row
MaxRows == 3             \* rows of crypto_prices a /data request reads

\* ------------------------------------------------------------- constants
BatchSize == 50          \* "if records_processed % 50 == 0"
NoTime == -1             \* a DateTime / Float column holding NULL
NumericLimit == 10       \* the validator's 1e15, numbers being in units of 1e14
MinLimit == 1            \* Query(10, ge=1, le=100)
MaxLimit == 100
MinOffset == 0           \* Query(0, ge=0)

\* the sessions: invocations that follow one another all run as session 1
Procs == {1, 2}
Sources == {"coinpaprika", "coingecko", "csv"}
SourceOrder == <<"coinpaprika", "coingecko", "csv">>
ApiSources == {"coinpaprika", "coingecko"}
NoError == "None"        \* a Text column holding NULL
NoRow == [none |-> TRUE] \* Python None for a row / a dict
EmptyId == 0             \* last_id '' (fetched entity i has native id i)
Kinds(s) == IF s \in ApiSources THEN {"ok", "none", "bad"} ELSE {"ok", "none"}

VARIABLES
    now,          \* the wall clock, in ticks
    runTable,     \* etl_run_metadata: set of committed rows
    ckTable,      \* etl_checkpoints: set of committed rows
    rawCount,     \* raw_crypto_data: committed rows per source
    priceCount,   \* crypto_prices: committed rows per source
    pc,           \* per invocation: position in run_all / ingest
    cur,          \* per invocation: index in SourceOrder of the current source
    sess,         \* per invocation: the session (broken, pending inserts)
    loc,          \* per invocation: the locals of the running ingest()
    ingestRes,    \* per invocation: what each ingest() call returned or raised
    all_results,  \* per invocation: run_all's result dict
    invocations,  \* run_all invocations started so far
    fetched,      \* entities returned by fetches so far
    faults,       \* storage faults injected so far
    rec,          \* one fetched entity followed from the fetch to the /data response
    api           \* the crypto_prices table a /data request reads, and its response

vars == <<now, runTable, ckTable, rawCount, priceCount, pc, cur, sess, loc,
          ingestRes, all_results, invocations, fetched, faults, rec, api>>

Src(p) == SourceOrder[cur[p]]

\* ------------------------------------------------------------- database
\* core/database.py: unique=True on etl_run_metadata.run_id
RunIdTaken(rid) == \E r \in runTable : r.run_id = rid

\* core/database.py: unique=True on etl_checkpoints.source
SourceTaken(s) == \E c \in ckTable : c.source = s

\* get_checkpoint(): query(ETLCheckpoint).filter(source == SOURCE_NAME).first()
get_checkpoint(s) ==
    IF \E c \in ckTable : c.source = s
    THEN CHOOSE c \in ckTable : c.source = s
    ELSE NoRow

\* RunRow with the bug of addressing the run's row by its source alone
RunRowOfSource(rid) ==
    IF \E r \in runTable : r.source = rid[1] /\ r.run_id # rid
    THEN CHOOSE r \in runTable : r.source = rid[1] /\ r.run_id # rid
    ELSE CHOOSE r \in runTable : r.run_id = rid

\* the row that the session's run_metadata object is mapped to
RunRow(rid) == CHOOSE r \in runTable : r.run_id = rid

FreshSession == [broken |-> FALSE, pendRaw |-> 0, pendPrice |-> 0]

\* Session.commit(): raises when the transaction is already inactive, when the
\* flush violates a unique key, or when the storage fails (fault).
CommitRaises(p, fault, violation) == sess[p].broken \/ fault \/ violation

CommitError(p, fault, violation) ==
    IF sess[p].broken THEN "PendingRollbackError"
    ELSE IF violation THEN "IntegrityError"
    ELSE "OperationalError"

\* a commit on an active session may hit a storage fault while the budget lasts
FaultChoices(p) ==
    IF faults < MaxFaults /\ ~sess[p].broken THEN BOOLEAN ELSE {FALSE}

Injected(fault) == faults' = IF fault THEN faults + 1 ELSE faults

\* BrokenSession with the bug of a session that stays usable after a commit
\* raised
UsableSession == [broken |-> FALSE, pendRaw |-> 0, pendPrice |-> 0]

\* the session after a commit that raised: pending objects are expunged and the
\* transaction stays inactive (no rollback() anywhere in the code)
BrokenSession == [broken |-> TRUE, pendRaw |-> 0, pendPrice |-> 0]

NoLocals ==
    [run_id |-> <<"", 0>>, start_time |-> NoTime, created |-> FALSE,
     ck0 |-> 0, raw0 |-> 0, price0 |-> 0, had_ck |-> FALSE, fetchRaised |-> FALSE,
     n |-> 0, idx |-> 0, records_processed |-> 0, records_failed |-> 0,
     last_id |-> EmptyId, coin_bound |-> FALSE, e |-> NoError, ck |-> NoRow]

NoResults == [s \in Sources |-> NoRow]

\* no /data request is being followed
NoApi == [table |-> <<>>, request |-> NoRow, response |-> NoRow]

\* no entity is being followed
NoRecord == [stage |-> "none"]

\* ----------------------------------------------------------------- Init
Init ==
    /\ now = 0
    /\ runTable = {}
    /\ ckTable = {}
    /\ rawCount = [s \in Sources |-> 0]
    /\ priceCount = [s \in Sources |-> 0]
    /\ pc = [p \in Procs |-> "idle"]
    /\ cur = [p \in Procs |-> 1]
    /\ sess = [p \in Procs |-> FreshSession]
    /\ loc = [p \in Procs |-> NoLocals]
    /\ ingestRes = [p \in Procs |-> NoResults]
    /\ all_results = [p \in Procs |-> [entries |-> NoResults, overall_status |-> "success"]]
    /\ invocations = 0
    /\ fetched = 0
    /\ faults = 0
    /\ api = NoApi
    /\ rec = NoRecord

\* datetime.utcnow() / time.time(): the clock read by a step is any tick from the
\* last one read up to the bound
ClockReads == now .. MaxTime

\* ------------------------------------------------------------- run_all
\* orchestrator.py:26-33: all_results initialised, db = SessionLocal().
\* Invocations follow one another: the next one starts after the previous returned.
RunAllStart(p) ==
    /\ p = 1
    /\ pc[p] \in {"idle", "done"}
    /\ invocations < MaxInvocations
    /\ invocations' = invocations + 1
    /\ ingestRes' = [ingestRes EXCEPT ![p] = NoResults]
    /\ pc' = [pc EXCEPT ![p] = "create"]
    /\ cur' = [cur EXCEPT ![p] = 1]
    /\ sess' = [sess EXCEPT ![p] = FreshSession]
    /\ loc' = [loc EXCEPT ![p] = NoLocals]
    /\ all_results' = [all_results EXCEPT ![p] =
                         [entries |-> NoResults, overall_status |-> "success"]]
    /\ UNCHANGED <<now, runTable, ckTable, rawCount, priceCount, fetched, faults>>
    /\ UNCHANGED <<rec, api>>

\* ingest() leaves by raising exception msg
Raise(p, msg) ==
    /\ pc' = [pc EXCEPT ![p] = "left"]
    /\ ingestRes' = [ingestRes EXCEPT ![p][Src(p)] = [raised |-> msg]]

\* the try block of ingest() raises e: control enters "except Exception as e"
Fail(p, l, msg) ==
    /\ pc' = [pc EXCEPT ![p] = "fail_query"]
    /\ loc' = [loc EXCEPT ![p] = [l EXCEPT !.e = msg]]

\* ingest(), lines 111-122: run_id, start_time, add(run_metadata), commit()
IngestCreate(p) ==
    /\ pc[p] = "create"
    /\ \E t \in ClockReads, fault \in FaultChoices(p) :
        /\ Injected(fault)
        /\ LET s == Src(p)
               rid == <<s, t \div TicksPerSecond>>
               ck == get_checkpoint(s)
               l == [NoLocals EXCEPT !.run_id = rid, !.start_time = t,
                                     !.raw0 = rawCount[s],
                                     !.price0 = priceCount[s],
                                     !.had_ck = ck # NoRow,
                                     !.ck0 = IF ck = NoRow THEN 0 ELSE ck.records_processed]
           IN /\ now' = t
              /\ IF CommitRaises(p, fault, RunIdTaken(rid))
                 THEN /\ Raise(p, CommitError(p, fault, RunIdTaken(rid)))
                      /\ sess' = [sess EXCEPT ![p] = BrokenSession]
                      /\ loc' = [loc EXCEPT ![p] = l]
                      /\ UNCHANGED runTable
                 ELSE /\ runTable' = runTable \cup
                           {[run_id |-> rid, source |-> s, start_time |-> t,
                             end_time |-> NoTime, status |-> "running",
                             records_processed |-> 0, records_failed |-> 0,
                             duration_seconds |-> NoTime, error_message |-> NoError,
                             \* not a column: the run_all invocation that inserted it
                             invocation |-> invocations]}
                      /\ loc' = [loc EXCEPT ![p] = [l EXCEPT !.created = TRUE]]
                      /\ pc' = [pc EXCEPT ![p] = IF s = "csv" THEN "exists" ELSE "mark"]
                      /\ UNCHANGED <<sess, ingestRes>>
    /\ UNCHANGED <<ckTable, rawCount, priceCount, cur, all_results,
                   invocations, fetched>>
    /\ UNCHANGED <<rec, api>>

\* csv_source.py:132-133: if not Path(csv_path).exists(): raise FileNotFoundError
CsvExists(p) ==
    /\ pc[p] = "exists"
    /\ \E exists \in BOOLEAN :
        IF exists
        THEN /\ pc' = [pc EXCEPT ![p] = "mark"]
             /\ UNCHANGED loc
        ELSE Fail(p, [loc[p] EXCEPT !.fetchRaised = TRUE], "CSV file not found")
    /\ UNCHANGED <<now, runTable, ckTable, rawCount, priceCount, cur, sess,
                   ingestRes, all_results,
                   invocations, fetched, faults>>
    /\ UNCHANGED <<rec, api>>

\* the checkpoint row of source s replaced by row c
PutCheckpoint(s, c) == {x \in ckTable : x.source # s} \cup {c}

\* ingest(), lines 126-130: mark the start on an existing checkpoint
IngestMark(p) ==
    /\ pc[p] = "mark"
    /\ LET s == Src(p)
           ck == get_checkpoint(s)
       IN IF ck = NoRow
          THEN /\ pc' = [pc EXCEPT ![p] = "fetch"]
               /\ UNCHANGED <<ckTable, sess, loc, faults>>
          ELSE \E fault \in FaultChoices(p) :
                /\ Injected(fault)
                /\ IF CommitRaises(p, fault, FALSE)
                   THEN /\ Fail(p, loc[p], CommitError(p, fault, FALSE))
                        /\ sess' = [sess EXCEPT ![p] = BrokenSession]
                        /\ UNCHANGED ckTable
                   ELSE /\ ckTable' = PutCheckpoint(s,
                               [ck EXCEPT !.last_run_start = loc[p].start_time,
                                          !.last_run_status = "running"])
                        /\ pc' = [pc EXCEPT ![p] = "fetch"]
                        /\ UNCHANGED <<sess, loc>>
    /\ UNCHANGED <<now, runTable, rawCount, priceCount, cur, ingestRes, all_results,
                   invocations, fetched>>
    /\ UNCHANGED <<rec, api>>

\* fetch_tickers / fetch_markets / pd.read_csv: raises, or returns n entities
IngestFetch(p) ==
    /\ pc[p] = "fetch"
    /\ \/ /\ Fail(p, [loc[p] EXCEPT !.fetchRaised = TRUE], "fetch error")
            /\ UNCHANGED fetched
       \/ \E n \in 0 .. (MaxFetched - fetched) :
            /\ loc' = [loc EXCEPT ![p].n = n]
            /\ fetched' = fetched + n
            /\ pc' = [pc EXCEPT ![p] = "loop"]
    /\ UNCHANGED <<now, runTable, ckTable, rawCount, priceCount, cur, sess,
                   ingestRes, all_results,
                   invocations, faults>>
    /\ UNCHANGED <<rec, api>>

\* one iteration of the per-record loop, lines 140-169, for an entity of the
\* given kind: "ok" normalises, "none" makes normalize_data return None, "bad"
\* (not a mapping) raises at .get before coin_id is assigned
IngestRecord(p) ==
    /\ pc[p] = "loop"
    /\ loc[p].idx < loc[p].n
    /\ \E kind \in Kinds(Src(p)), fault \in FaultChoices(p) :
        /\ Injected(fault)
        /\ LET l == loc[p]
               i == l.idx + 1
               processed == IF kind = "ok" THEN l.records_processed + 1
                            ELSE l.records_processed
               \* objects added to an inactive session are never flushed
               added == IF sess[p].broken THEN sess[p]
                        ELSE [sess[p] EXCEPT
                                !.pendRaw = @ + 1,
                                !.pendPrice = IF kind = "ok" THEN @ + 1 ELSE @]
               commits == processed % BatchSize = 0
               body == [l EXCEPT !.idx = i, !.last_id = i, !.coin_bound = TRUE,
                                 !.records_processed = processed,
                                 !.records_failed =
                                     IF kind = "none" THEN @ + 1 ELSE @]
           IN /\ fault => (kind # "bad" /\ commits)
              /\ IF kind = "bad"
                 THEN \* market.get raises; the handler logs coin_id
                      /\ IF l.coin_bound
                         THEN /\ loc' = [loc EXCEPT ![p] =
                                           [l EXCEPT !.idx = i, !.records_failed = @ + 1]]
                              /\ UNCHANGED pc
                         ELSE Fail(p, [l EXCEPT !.idx = i], "UnboundLocalError")
                      /\ UNCHANGED <<sess, rawCount, priceCount>>
                 ELSE IF ~commits
                 THEN /\ loc' = [loc EXCEPT ![p] = body]
                      /\ sess' = [sess EXCEPT ![p] = added]
                      /\ UNCHANGED <<pc, rawCount, priceCount>>
                 ELSE IF CommitRaises(p, fault, FALSE)
                 THEN \* the commit's exception is caught by the record's handler
                      /\ loc' = [loc EXCEPT ![p] = [body EXCEPT !.records_failed = @ + 1]]
                      /\ sess' = [sess EXCEPT ![p] = BrokenSession]
                      /\ UNCHANGED <<pc, rawCount, priceCount>>
                 ELSE /\ loc' = [loc EXCEPT ![p] = body]
                      /\ rawCount' = [rawCount EXCEPT ![Src(p)] = @ + added.pendRaw]
                      /\ priceCount' = [priceCount EXCEPT ![Src(p)] = @ + added.pendPrice]
                      /\ sess' = [sess EXCEPT ![p] = FreshSession]
                      /\ UNCHANGED pc
    /\ UNCHANGED <<now, runTable, ckTable, cur, ingestRes, all_results,
                   invocations, fetched>>
    /\ UNCHANGED <<rec, api>>

\* line 172: the final commit after the loop
IngestFinalCommit(p) ==
    /\ pc[p] = "loop"
    /\ loc[p].idx = loc[p].n
    /\ \E fault \in FaultChoices(p) :
        /\ Injected(fault)
        /\ IF CommitRaises(p, fault, FALSE)
           THEN /\ Fail(p, loc[p], CommitError(p, fault, FALSE))
                /\ sess' = [sess EXCEPT ![p] = BrokenSession]
                /\ UNCHANGED <<rawCount, priceCount>>
           ELSE /\ rawCount' = [rawCount EXCEPT ![Src(p)] = @ + sess[p].pendRaw]
                /\ priceCount' = [priceCount EXCEPT ![Src(p)] = @ + sess[p].pendPrice]
                /\ sess' = [sess EXCEPT ![p] = FreshSession]
                /\ pc' = [pc EXCEPT ![p] = "upd_query"]
                /\ UNCHANGED loc
    /\ UNCHANGED <<now, runTable, ckTable, cur, ingestRes, all_results,
                   invocations, fetched>>
    /\ UNCHANGED <<rec, api>>

\* CheckpointAfter with the bug "records_processed = records_count"
CheckpointAfterOverwrite(s, ck, last_id, records_count, status, error, t) ==
    [source |-> s,
     last_processed_id |-> last_id,
     last_processed_timestamp |-> t,
     records_processed |-> records_count,
     last_run_start |-> IF ck # NoRow THEN ck.last_run_start ELSE t,
     last_run_end |-> t,
     last_run_status |-> status,
     last_error |-> error]

\* CheckpointAfter with the bug of a failed run clearing the counter
CheckpointAfterResetOnFailure(s, ck, last_id, records_count, status, error, t) ==
    [source |-> s,
     last_processed_id |-> last_id,
     last_processed_timestamp |-> t,
     records_processed |->
         IF ck # NoRow /\ status = "success"
         THEN ck.records_processed + records_count
         ELSE records_count,
     last_run_start |-> IF ck # NoRow THEN ck.last_run_start ELSE t,
     last_run_end |-> t,
     last_run_status |-> status,
     last_error |-> error]

\* CheckpointAfter with the bug of never recording how the run ended
CheckpointAfterStillRunning(s, ck, last_id, records_count, status, error, t) ==
    [source |-> s,
     last_processed_id |-> last_id,
     last_processed_timestamp |-> t,
     records_processed |-> IF ck # NoRow THEN ck.records_processed + records_count
                           ELSE records_count,
     last_run_start |-> IF ck # NoRow THEN ck.last_run_start ELSE t,
     last_run_end |-> t,
     last_run_status |-> "running",
     last_error |-> error]

\* update_checkpoint(), lines 68-87: the row that the commit writes, from the row
\* ck that get_checkpoint() read (NoRow: none) at clock reading t
CheckpointAfter(s, ck, last_id, records_count, status, error, t) ==
    IF ck # NoRow
    THEN [ck EXCEPT !.last_processed_id = last_id,
                    !.last_processed_timestamp = t,
                    !.records_processed = @ + records_count,
                    !.last_run_end = t,
                    !.last_run_status = status,
                    !.last_error = error]
    ELSE [source |-> s,
          last_processed_id |-> last_id,
          last_processed_timestamp |-> t,
          records_processed |-> records_count,
          last_run_start |-> t,
          last_run_end |-> t,
          last_run_status |-> status,
          last_error |-> error]

\* update_checkpoint(), lines 69-75: the attributes assigned on an existing
\* row; the UPDATE the flush emits sets those whose value differs from the one
\* loaded
AssignedColumns ==
    {"last_processed_id", "last_processed_timestamp", "records_processed",
     "last_run_end", "last_run_status", "last_error"}

\* WriteCheckpoint with the bug of adding a new row on every call, on a table
\* without the unique key
WriteCheckpointInsert(s, ck, last_id, records_count, status, error, t) ==
    ckTable \cup {CheckpointAfter(s, ck, last_id, records_count, status, error, t)}

\* WriteCheckpoint with the bug of an UPDATE that is not restricted to the
\* source's own row
WriteCheckpointAllRows(s, ck, last_id, records_count, status, error, t) ==
    LET new == CheckpointAfter(s, ck, last_id, records_count, status, error, t)
    IN IF ck = NoRow
       THEN ckTable \cup {new}
       ELSE {[x EXCEPT !.last_processed_id = new.last_processed_id,
                       !.last_processed_timestamp = new.last_processed_timestamp,
                       !.records_processed = new.records_processed,
                       !.last_run_end = new.last_run_end,
                       !.last_run_status = new.last_run_status,
                       !.last_error = new.last_error] : x \in ckTable}

\* the etl_checkpoints table after update_checkpoint()'s commit: an UPDATE of
\* the changed columns of the row read, or an INSERT of the new row
WriteCheckpoint(s, ck, last_id, records_count, status, error, t) ==
    LET new == CheckpointAfter(s, ck, last_id, records_count, status, error, t)
    IN IF ck = NoRow
       THEN ckTable \cup {new}
       ELSE {IF x.source = s
             THEN [col \in DOMAIN x |->
                     IF col \in AssignedColumns /\ new[col] # ck[col]
                     THEN new[col] ELSE x[col]]
             ELSE x : x \in ckTable}

\* update_checkpoint(), line 66: checkpoint = self.get_checkpoint() (success path)
UpdateQuery(p) ==
    /\ pc[p] = "upd_query"
    /\ loc' = [loc EXCEPT ![p].ck = get_checkpoint(Src(p))]
    /\ pc' = [pc EXCEPT ![p] = "upd_commit"]
    /\ UNCHANGED <<now, runTable, ckTable, rawCount, priceCount, cur, sess,
                   ingestRes, all_results,
                   invocations, fetched, faults>>
    /\ UNCHANGED <<rec, api>>

\* lines 175-180 with update_checkpoint() lines 68-89: assign or add, commit
UpdateCommit(p) ==
    /\ pc[p] = "upd_commit"
    /\ \E t \in ClockReads, fault \in FaultChoices(p) :
        /\ Injected(fault)
        /\ LET s == Src(p)
               l == loc[p]
               violation == l.ck = NoRow /\ SourceTaken(s)
           IN /\ now' = t
              /\ IF CommitRaises(p, fault, violation)
                 THEN /\ Fail(p, l, CommitError(p, fault, violation))
                      /\ sess' = [sess EXCEPT ![p] = BrokenSession]
                      /\ UNCHANGED ckTable
                 ELSE /\ ckTable' = WriteCheckpoint(s, l.ck, l.last_id,
                                        l.records_processed, "success", NoError, t)
                      /\ pc' = [pc EXCEPT ![p] = "finalize"]
                      /\ UNCHANGED <<sess, loc>>
    /\ UNCHANGED <<runTable, rawCount, priceCount, cur, ingestRes, all_results,
                   invocations, fetched>>
    /\ UNCHANGED <<rec, api>>

\* lines 183-190: the run's row finalized as success
SuccessRow(r, l, t) ==
    [r EXCEPT !.end_time = t,
              !.status = "success",
              !.records_processed = l.records_processed,
              !.records_failed = l.records_failed,
              !.duration_seconds = t - l.start_time]

\* FailedRow with the bug of a failure path that does not set end_time
FailedRowNoEnd(r, l, t) ==
    [r EXCEPT !.status = "failed",
              !.error_message = l.e,
              !.duration_seconds = t - l.start_time]

\* lines 215-218: the run's row finalized as failed
FailedRow(r, l, t) ==
    [r EXCEPT !.end_time = t,
              !.status = "failed",
              !.error_message = l.e,
              !.duration_seconds = t - l.start_time]

\* lines 195-201: the summary ingest() returns
Summary(l, t) ==
    [run_id |-> l.run_id, status |-> "success",
     records_processed |-> l.records_processed,
     records_failed |-> l.records_failed,
     duration_seconds |-> t - l.start_time]

\* lines 183-201: finalize the run as success, commit, return the summary
IngestFinalize(p) ==
    /\ pc[p] = "finalize"
    /\ \E t \in ClockReads, fault \in FaultChoices(p) :
        /\ Injected(fault)
        /\ LET l == loc[p]
           IN /\ now' = t
              /\ IF CommitRaises(p, fault, FALSE)
                 THEN /\ Fail(p, l, CommitError(p, fault, FALSE))
                      /\ sess' = [sess EXCEPT ![p] = BrokenSession]
                      /\ UNCHANGED <<runTable, ingestRes>>
                 ELSE /\ runTable' = (runTable \ {RunRow(l.run_id)}) \cup
                                       {SuccessRow(RunRow(l.run_id), l, t)}
                      /\ pc' = [pc EXCEPT ![p] = "left"]
                      /\ ingestRes' = [ingestRes EXCEPT ![p][Src(p)] =
                                         [returned |-> Summary(l, t)]]
                      /\ UNCHANGED <<sess, loc>>
    /\ UNCHANGED <<ckTable, rawCount, priceCount, cur, all_results,
                   invocations, fetched>>
    /\ UNCHANGED <<rec, api>>

\* except-branch, lines 207 and 66: update_checkpoint() queries the checkpoint;
\* on an inactive session the query raises and ingest() is left at once
FailQuery(p) ==
    /\ pc[p] = "fail_query"
    /\ IF sess[p].broken
       THEN /\ Raise(p, "PendingRollbackError")
            /\ UNCHANGED loc
       ELSE /\ loc' = [loc EXCEPT ![p].ck = get_checkpoint(Src(p))]
            /\ pc' = [pc EXCEPT ![p] = "fail_commit"]
            /\ UNCHANGED ingestRes
    /\ UNCHANGED <<now, runTable, ckTable, rawCount, priceCount, cur, sess,
                   all_results,
                   invocations, fetched, faults>>
    /\ UNCHANGED <<rec, api>>

\* except-branch, lines 207-212: update_checkpoint('', 0, 'failed', str(e)) commits
FailCommit(p) ==
    /\ pc[p] = "fail_commit"
    /\ \E t \in ClockReads, fault \in FaultChoices(p) :
        /\ Injected(fault)
        /\ LET s == Src(p)
               l == loc[p]
               violation == l.ck = NoRow /\ SourceTaken(s)
           IN /\ now' = t
              /\ IF CommitRaises(p, fault, violation)
                 THEN /\ Raise(p, CommitError(p, fault, violation))
                      /\ sess' = [sess EXCEPT ![p] = BrokenSession]
                      /\ UNCHANGED ckTable
                 ELSE /\ ckTable' = WriteCheckpoint(s, l.ck, EmptyId, 0, "failed", l.e, t)
                      /\ pc' = [pc EXCEPT ![p] = "fail_finalize"]
                      /\ UNCHANGED <<sess, ingestRes>>
    /\ UNCHANGED <<runTable, rawCount, priceCount, cur, loc, all_results,
                   invocations, fetched>>
    /\ UNCHANGED <<rec, api>>

\* except-branch, lines 215-221: finalize the run as failed, commit, re-raise e
FailFinalize(p) ==
    /\ pc[p] = "fail_finalize"
    /\ \E t \in ClockReads, fault \in FaultChoices(p) :
        /\ Injected(fault)
        /\ LET l == loc[p]
           IN /\ now' = t
              /\ IF CommitRaises(p, fault, FALSE)
                 THEN /\ Raise(p, CommitError(p, fault, FALSE))
                      /\ sess' = [sess EXCEPT ![p] = BrokenSession]
                      /\ UNCHANGED runTable
                 ELSE /\ runTable' = (runTable \ {RunRow(l.run_id)}) \cup
                                       {FailedRow(RunRow(l.run_id), l, t)}
                      /\ Raise(p, l.e)
                      /\ UNCHANGED sess
    /\ UNCHANGED <<ckTable, rawCount, priceCount, cur, loc, all_results,
                   invocations, fetched>>
    /\ UNCHANGED <<rec, api>>

\* Collected with the bug of an except-branch that forgets overall_status
CollectedNoPartial(res_all, s, res) ==
    IF "returned" \in DOMAIN res
    THEN [res_all EXCEPT !.entries[s] = res.returned]
    ELSE [res_all EXCEPT !.entries[s] = [status |-> "failed", error |-> res.raised]]

\* Collected with the bug of an except-branch that swallows the exception
CollectedDropFailure(res_all, s, res) ==
    IF "returned" \in DOMAIN res
    THEN [res_all EXCEPT !.entries[s] = res.returned]
    ELSE [res_all EXCEPT !.overall_status = "partial"]

\* run_all, the try/except around one source (lines 37-45, 48-56, 59-67): the
\* entry and overall_status after the ingest call ended with res
Collected(res_all, s, res) ==
    IF "returned" \in DOMAIN res
    THEN [res_all EXCEPT !.entries[s] = res.returned]
    ELSE [entries |-> [res_all.entries EXCEPT ![s] =
                          [status |-> "failed", error |-> res.raised]],
          overall_status |-> "partial"]

\* RunAllCollect with the bug of one try block around all three sources: the
\* first exception ends the invocation
RunAllCollectAbort(p) ==
    /\ pc[p] = "left"
    /\ all_results' = [all_results EXCEPT ![p] =
                         Collected(all_results[p], Src(p), ingestRes[p][Src(p)])]
    /\ IF cur[p] < Len(SourceOrder) /\ "returned" \in DOMAIN ingestRes[p][Src(p)]
       THEN /\ cur' = [cur EXCEPT ![p] = @ + 1]
            /\ pc' = [pc EXCEPT ![p] = "create"]
       ELSE /\ pc' = [pc EXCEPT ![p] = "return"]
            /\ UNCHANGED cur
    /\ loc' = [loc EXCEPT ![p] = NoLocals]
    /\ UNCHANGED <<now, runTable, ckTable, rawCount, priceCount, sess, ingestRes,
                   invocations, fetched, faults>>
    /\ UNCHANGED <<rec, api>>

\* RunAllCollect with the bug of running the failed source again
RunAllCollectRetry(p) ==
    /\ pc[p] = "left"
    /\ all_results' = [all_results EXCEPT ![p] =
                         Collected(all_results[p], Src(p), ingestRes[p][Src(p)])]
    /\ IF "raised" \in DOMAIN ingestRes[p][Src(p)]
       THEN /\ pc' = [pc EXCEPT ![p] = "create"]
            /\ UNCHANGED cur
       ELSE IF cur[p] < Len(SourceOrder)
       THEN /\ cur' = [cur EXCEPT ![p] = @ + 1]
            /\ pc' = [pc EXCEPT ![p] = "create"]
       ELSE /\ pc' = [pc EXCEPT ![p] = "return"]
            /\ UNCHANGED cur
    /\ loc' = [loc EXCEPT ![p] = NoLocals]
    /\ UNCHANGED <<now, runTable, ckTable, rawCount, priceCount, sess, ingestRes,
                   invocations, fetched, faults>>
    /\ UNCHANGED <<rec, api>>

\* RunAllCollect with the bug of leaving out the source after a failed one
RunAllCollectSkip(p) ==
    /\ pc[p] = "left"
    /\ all_results' = [all_results EXCEPT ![p] =
                         Collected(all_results[p], Src(p), ingestRes[p][Src(p)])]
    /\ IF cur[p] + 1 < Len(SourceOrder) /\ "raised" \in DOMAIN ingestRes[p][Src(p)]
       THEN /\ cur' = [cur EXCEPT ![p] = @ + 2]
            /\ pc' = [pc EXCEPT ![p] = "create"]
       ELSE IF cur[p] < Len(SourceOrder)
       THEN /\ cur' = [cur EXCEPT ![p] = @ + 1]
            /\ pc' = [pc EXCEPT ![p] = "create"]
       ELSE /\ pc' = [pc EXCEPT ![p] = "return"]
            /\ UNCHANGED cur
    /\ loc' = [loc EXCEPT ![p] = NoLocals]
    /\ UNCHANGED <<now, runTable, ckTable, rawCount, priceCount, sess, ingestRes,
                   invocations, fetched, faults>>
    /\ UNCHANGED <<rec, api>>

\* run_all: record the source's outcome and go on to the next source
RunAllCollect(p) ==
    /\ pc[p] = "left"
    /\ all_results' = [all_results EXCEPT ![p] =
                         Collected(all_results[p], Src(p), ingestRes[p][Src(p)])]
    /\ IF cur[p] < Len(SourceOrder)
       THEN /\ cur' = [cur EXCEPT ![p] = @ + 1]
            /\ pc' = [pc EXCEPT ![p] = "create"]
       ELSE /\ pc' = [pc EXCEPT ![p] = "return"]
            /\ UNCHANGED cur
    /\ loc' = [loc EXCEPT ![p] = NoLocals]
    /\ UNCHANGED <<now, runTable, ckTable, rawCount, priceCount, sess, ingestRes,
                   invocations, fetched, faults>>
    /\ UNCHANGED <<rec, api>>

\* run_all, lines 73-76: return all_results; finally db.close()
RunAllReturn(p) ==
    /\ pc[p] = "return"
    /\ pc' = [pc EXCEPT ![p] = "done"]
    /\ sess' = [sess EXCEPT ![p] = FreshSession]
    /\ UNCHANGED <<now, runTable, ckTable, rawCount, priceCount, cur, loc,
                   ingestRes, all_results,
                   invocations, fetched, faults>>
    /\ UNCHANGED <<rec, api>>

Next ==
    \E p \in Procs :
        \/ RunAllStart(p)
        \/ IngestCreate(p)
        \/ CsvExists(p)
        \/ IngestMark(p)
        \/ IngestFetch(p)
        \/ IngestRecord(p)
        \/ IngestFinalCommit(p)
        \/ UpdateQuery(p)
        \/ UpdateCommit(p)
        \/ IngestFinalize(p)
        \/ FailQuery(p)
        \/ FailCommit(p)
        \/ FailFinalize(p)
        \/ RunAllCollect(p)
        \/ RunAllReturn(p)

Spec == Init /\ [][Next]_vars

\* ------------------------------------------------------------------------
\* Properties
\* ------------------------------------------------------------------------
IsRaise(res) == "raised" \in DOMAIN res
IsReturn(res) == "returned" \in DOMAIN res
Terminal == {"success", "failed"}
CheckpointRows(s) == {c \in ckTable : c.source = s}
RunRows(s) == {r \in runTable : r.source = s}

\* ingest() of the current source of p has just returned control to run_all
Left(p) == pc[p] = "left"

\* C1: whenever ingest() returns control, by returning or by raising, the
\* RunRecord it created for the attempt is success or failed, never running.
C1_RunRecordFinalizedOnExit ==
    \A p \in Procs :
        (Left(p) /\ loc[p].created) =>
            RunRow(loc[p].run_id).status \in Terminal

\* C2: if the fetch (or the csv file check) raised, then once ingest() has
\* raised the RunRecord is failed with a non-empty error message, the checkpoint
\* is failed with that message as last_error, and the cumulative counter is what
\* it was before the run.
C2_FetchFailureRecorded ==
    \A p \in Procs :
        (Left(p) /\ loc[p].fetchRaised) =>
            LET r == RunRow(loc[p].run_id)
                ck == get_checkpoint(Src(p))
            IN /\ r.status = "failed"
               /\ r.error_message \notin {NoError, ""}
               /\ ck # NoRow
               /\ ck.last_run_status = "failed"
               /\ ck.last_error = r.error_message
               /\ ck.records_processed = loc[p].ck0

Returned(p) == pc[p] \in {"return", "done"}
FailedSources(p) == {s \in Sources : IsRaise(ingestRes[p][s])}
SummaryKeys ==
    {"run_id", "status", "records_processed", "records_failed", "duration_seconds"}

\* C3: an ingest that raises is recorded as {status: failed, error: message}
\* under its source's key and every later source is still invoked; with exactly
\* one failing source the result is partial, the failing entry is failed with a
\* non-empty error and the other two entries are the full success summaries.
C3_FailureIsolated ==
    \A p \in Procs :
        /\ \A s \in Sources :
             LET res == ingestRes[p][s]
                 entry == all_results[p].entries[s]
             IN entry # NoRow =>
                  /\ IsRaise(res) =>
                       /\ entry = [status |-> "failed", error |-> res.raised]
                       /\ entry.error \notin {NoError, ""}
                  /\ IsReturn(res) =>
                       /\ entry = res.returned
                       /\ DOMAIN entry = SummaryKeys
                       /\ entry.status = "success"
        /\ Returned(p) =>
             /\ \A s \in Sources :
                  ingestRes[p][s] # NoRow /\ all_results[p].entries[s] # NoRow
             /\ Cardinality(FailedSources(p)) = 1 =>
                  all_results[p].overall_status = "partial"

\* C3 witness: run_all returned with the first source failed and both later
\* sources succeeded
C3_Witness ==
    /\ pc[1] = "done"
    /\ FailedSources(1) = {"coinpaprika"}
    /\ all_results[1].entries["coingecko"].status = "success"
    /\ all_results[1].entries["csv"].status = "success"
    /\ all_results[1].overall_status = "partial"

\* C4: no failure of an earlier source changes a later source's outcome: a
\* later source is never refused at its first write, before anything of its own
\* went wrong, because of the session the earlier source left behind.
C4_LaterSourceUnaffected ==
    \A p \in Procs :
        (Left(p) /\ cur[p] > 1 /\ ~loc[p].created) =>
            ingestRes[p][Src(p)].raised # "PendingRollbackError"

\* C5: overall_status is success exactly when all three ingests returned a
\* summary and partial as soon as one raised; it takes no other value.
C5_OverallStatus ==
    \A p \in Procs :
        /\ all_results[p].overall_status \in {"success", "partial"}
        /\ Returned(p) =>
             (all_results[p].overall_status = "success"
                <=> \A s \in Sources : IsReturn(ingestRes[p][s]))
        /\ (\E s \in Sources : all_results[p].entries[s] # NoRow
                               /\ all_results[p].entries[s].status = "failed")
             => all_results[p].overall_status = "partial"

\* C5 witness: run_all returned partial with all three sources failed
C5_Witness ==
    /\ pc[1] = "done"
    /\ FailedSources(1) = Sources
    /\ all_results[1].overall_status = "partial"

\* C6: when run_all returns, every source has a non-null entry, a success
\* summary or a failed entry with its error, and every ingest that raised is
\* in the result as failed.
C6_EveryOutcomeReported ==
    \A p \in Procs :
        Returned(p) =>
            \A s \in Sources :
                LET entry == all_results[p].entries[s]
                IN /\ entry # NoRow
                   /\ entry.status \in Terminal
                   /\ entry.status = "failed" <=> IsRaise(ingestRes[p][s])
                   /\ entry.status = "failed" => "error" \in DOMAIN entry

\* C6 witness: run_all returned with a failed source in the middle and an
\* entry for each of the three
C6_Witness ==
    /\ pc[1] = "done"
    /\ FailedSources(1) = {"coingecko"}
    /\ \A s \in Sources : all_results[1].entries[s] # NoRow
    /\ all_results[1].entries["coingecko"].status = "failed"

RECURSIVE SumProcessed(_)
SumProcessed(rows) ==
    IF rows = {} THEN 0
    ELSE LET r == CHOOSE x \in rows : TRUE
         IN r.records_processed + SumProcessed(rows \ {r})

AllSucceeded(s) == RunRows(s) # {} /\ \A r \in RunRows(s) : r.status = "success"

\* C7: update_checkpoint adds records_count to the stored counter: for a source
\* all of whose runs so far succeeded, the checkpoint's records_processed is
\* the sum of the records_processed of those runs.
C7_CounterIsSumOfRuns ==
    \A s \in Sources :
        AllSucceeded(s) =>
            /\ get_checkpoint(s) # NoRow
            /\ get_checkpoint(s).records_processed = SumProcessed(RunRows(s))

\* C7 witness: two successful runs of coinpaprika that processed one record
\* each, and a counter of two
C7_Witness ==
    /\ AllSucceeded("coinpaprika")
    /\ Cardinality(RunRows("coinpaprika")) = 2
    /\ \A r \in RunRows("coinpaprika") : r.records_processed = 1
    /\ get_checkpoint("coinpaprika").records_processed = 2

\* the step is the checkpoint write that ends a run of source s
EndsRun(s) ==
    /\ get_checkpoint(s)' # NoRow
    /\ get_checkpoint(s)'.last_run_status \in Terminal
    /\ \E p \in Procs : /\ Src(p) = s
                        /\ \/ pc[p] = "upd_commit" /\ pc'[p] = "finalize"
                           \/ pc[p] = "fail_commit" /\ pc'[p] = "fail_finalize"

\* the step is the checkpoint write of a successful run of s that processed at
\* least one record
EndsProductiveRun(s) ==
    \E p \in Procs : /\ Src(p) = s
                     /\ pc[p] = "upd_commit" /\ pc'[p] = "finalize"
                     /\ loc[p].records_processed >= 1

InProgress(p) ==
    pc[p] \in {"exists", "mark", "fetch", "loop", "upd_query", "upd_commit",
               "finalize", "fail_query", "fail_commit", "fail_finalize"}

\* C10: a RunRecord has status running, success or failed; while the ingest
\* that created it has not finalized it, it is running with no end_time; a
\* success or failed row has an end_time >= start_time and a duration; a
\* running row has no end_time.
C10_RunRecordLifecycle ==
    /\ \A r \in runTable :
         /\ r.status \in {"running"} \cup Terminal
         /\ r.status \in Terminal =>
              /\ r.end_time # NoTime
              /\ r.end_time >= r.start_time
              /\ r.duration_seconds # NoTime
         /\ r.status = "running" => r.end_time = NoTime
    /\ \A p \in Procs :
         InProgress(p) =>
             /\ loc[p].created
             /\ RunRow(loc[p].run_id).status = "running"
             /\ RunRow(loc[p].run_id).end_time = NoTime

\* C10 witness: a failed row and a success row, one of them finalized at a
\* later clock reading than its start, next to a row left running
C10_Witness ==
    /\ \E r \in runTable : r.status = "success" /\ r.end_time > r.start_time
    /\ \E r \in runTable : r.status = "failed" /\ r.end_time # NoTime
    /\ \E r \in runTable : r.status = "running" /\ r.end_time = NoTime

\* C11: a RunRecord that is success or failed is never written again: every
\* step leaves each finalized row in the table exactly as it is, so the one
\* update that finalized it is its last.
C11_FinalizedOnce ==
    [][\A r \in runTable : r.status \in Terminal => r \in runTable']_vars

\* C11 witness: two finalized rows of one source, the earlier one a success
\* that the later, failed run of the same source has left alone
C11_Witness ==
    /\ pc[1] = "left"
    /\ Src(1) = "coinpaprika"
    /\ loc[1].created
    /\ RunRow(loc[1].run_id).status = "failed"
    /\ \E r \in RunRows("coinpaprika") :
         /\ r.run_id # loc[1].run_id
         /\ r.status = "success"
         /\ r.end_time # NoTime

\* C12: creating a RunRecord never violates the unique key on run_id: no ingest
\* is refused at its first write because its run_id is already taken.
C12_RunIdsUnique ==
    \A p \in Procs :
        (Left(p) /\ ~loc[p].created) =>
            ingestRes[p][Src(p)].raised # "IntegrityError"

\* C13: every ingest() call adds a RunRecord row: an ingest that has left has
\* a row of its own in the table.
C13_EveryAttemptHasRow ==
    \A p \in Procs :
        Left(p) => /\ loc[p].created
                   /\ RunIdTaken(loc[p].run_id)

\* C14: a record whose processing raises is counted in records_failed and the
\* loop goes on: the run never enters its failure path with an exception that
\* comes from handling one record.
C14_RecordFailureNotFatal ==
    \A p \in Procs : loc[p].e # "UnboundLocalError"

\* C15: a commit that raises is fatal to the run: the loop never goes on with
\* a session whose commit raised, and an ingest in which a commit raised after
\* the RunRecord was created leaves that RunRecord failed.
C15_StorageFailureFatal ==
    \A p \in Procs :
        /\ (pc[p] = "loop" /\ loc[p].created) => ~sess[p].broken
        /\ (Left(p) /\ loc[p].created /\ sess[p].broken) =>
               RunRow(loc[p].run_id).status = "failed"

\* C20: an attempt that started while the source's checkpoint existed has
\* stamped the checkpoint with its start_time before it fetches, and after it
\* ended the checkpoint's last_run_start is the start_time of its RunRecord.
C20_LastRunStartIsThisRun ==
    \A p \in Procs :
        (loc[p].created /\ loc[p].had_ck) =>
            /\ pc[p] \in {"fetch", "fail_query", "fail_commit", "fail_finalize", "left"} =>
                 get_checkpoint(Src(p)).last_run_start = loc[p].start_time
            /\ pc[p] = "fetch" => get_checkpoint(Src(p)).last_run_status = "running"

\* ------------------------------------------------- one ingest, full batches
\* SpecBatch follows a single ingest() call whose fetch returns enough entities
\* for the batch commit to come due.  The three ingestors have the same loop;
\* the call followed is that of csv, the last source of run_all
\* (csv_source.py:151-183).

\* fetch_tickers / fetch_markets / pd.read_csv returning about BatchSize entities
FetchMany(p) ==
    /\ pc[p] = "fetch"
    /\ \/ /\ Fail(p, [loc[p] EXCEPT !.fetchRaised = TRUE], "fetch error")
          /\ UNCHANGED fetched
       \/ \E n \in (MaxBatchFetched - 2) .. MaxBatchFetched :
            /\ loc' = [loc EXCEPT ![p].n = n]
            /\ fetched' = fetched + n
            /\ pc' = [pc EXCEPT ![p] = "loop"]
    /\ UNCHANGED <<now, runTable, ckTable, rawCount, priceCount, cur, sess,
                   ingestRes, all_results, invocations, faults>>
    /\ UNCHANGED <<rec, api>>

\* run_all has created its session and calls the ingest of its last source
InitBatch ==
    /\ now = 0
    /\ runTable = {}
    /\ ckTable = {}
    /\ rawCount = [s \in Sources |-> 0]
    /\ priceCount = [s \in Sources |-> 0]
    /\ pc = [p \in Procs |-> IF p = 1 THEN "create" ELSE "idle"]
    /\ cur = [p \in Procs |-> IF p = 1 THEN Len(SourceOrder) ELSE 1]
    /\ sess = [p \in Procs |-> FreshSession]
    /\ loc = [p \in Procs |-> NoLocals]
    /\ ingestRes = [p \in Procs |-> NoResults]
    /\ all_results = [p \in Procs |-> [entries |-> NoResults, overall_status |-> "success"]]
    /\ invocations = 1
    /\ fetched = 0
    /\ faults = 0
    /\ api = NoApi
    /\ rec = NoRecord

NextBatch ==
    \E p \in Procs :
        \/ IngestCreate(p)
        \/ CsvExists(p)
        \/ IngestMark(p)
        \/ FetchMany(p)
        \/ IngestRecord(p)
        \/ IngestFinalCommit(p)
        \/ UpdateQuery(p)
        \/ UpdateCommit(p)
        \/ IngestFinalize(p)
        \/ FailQuery(p)
        \/ FailCommit(p)
        \/ FailFinalize(p)

SpecBatch == InitBatch /\ [][NextBatch]_vars

\* records counted in records_processed whose rows are not committed
Uncommitted(p) == loc[p].records_processed - (priceCount[Src(p)] - loc[p].price0)

\* C19: between two iterations of the loop at most BatchSize - 1 records are
\* counted in records_processed without their writes being committed, and when
\* the checkpoint is updated every write of the run is committed.
C19_UncommittedBounded ==
    \A p \in Procs :
        /\ pc[p] = "loop" => Uncommitted(p) <= BatchSize - 1
        /\ pc[p] \in {"upd_query", "upd_commit"} =>
             /\ Uncommitted(p) = 0
             /\ sess[p].pendRaw = 0
             /\ sess[p].pendPrice = 0

\* ------------------------------------------- one entity, fetch to response
\* SpecRecord follows one fetched entity through the loop body of ingest(),
\* the commit, and the /data endpoint that serves the stored row.

NumericFields == {"price_usd", "market_cap", "volume_24h", "price_change_24h"}

\* a source value: missing / null, a number, or (csv only) text that is no number
Absent == [kind |-> "absent", v |-> 0]
Num(x) == [kind |-> "num", v |-> x]
Text == [kind |-> "text", v |-> 0]

SourceNumbers ==
    (0 - MaxExcess .. 1) \cup (NumericLimit .. NumericLimit + MaxExcess)

SourceValues(s) ==
    {Absent} \cup {Num(x) : x \in SourceNumbers}
        \cup (IF s \in ApiSources THEN {} ELSE {Text})

\* the entities a fetch can return: an element that is no mapping (API only),
\* or a mapping with or without id and symbol and any value in each numeric field
RawRecords(s) ==
    (IF s \in ApiSources
     THEN {[mapping |-> FALSE, has_id |-> FALSE, has_symbol |-> FALSE,
            num |-> [f \in NumericFields |-> Absent]]}
     ELSE {})
    \cup {[mapping |-> TRUE, has_id |-> i, has_symbol |-> y, num |-> n] :
            i \in BOOLEAN, y \in BOOLEAN, n \in [NumericFields -> SourceValues(s)]}

\* str.upper() on the symbols that occur
Upper(sym) == IF sym = "btc" THEN "BTC" ELSE sym

\* validate_numeric with the bug of checking only the upper limit
validate_numericUpperOnly(v) ==
    IF v # Absent /\ v.v > NumericLimit THEN Absent ELSE v

\* schemas/models.py:18-23: CryptoPriceBase.validate_numeric
validate_numeric(v) ==
    IF v # Absent /\ (v.v < 0 \/ v.v > NumericLimit) THEN Absent ELSE v

\* normalize_data of source s: the CryptoPrice built from a mapping, NoRow for
\* the None returned when building it raised (csv: float() of text)
normalize_data(s, raw_data) ==
    LET id == IF raw_data.has_id THEN "bitcoin" ELSE ""
        sym == IF raw_data.has_symbol THEN "btc" ELSE ""
    IN IF s = "csv" /\ \E f \in NumericFields : raw_data.num[f] = Text
       THEN NoRow
       ELSE [coin_id |-> IF s = "csv" /\ ~raw_data.has_id THEN sym ELSE id,
             symbol |-> IF s = "coinpaprika" THEN sym ELSE Upper(sym),
             price_usd |-> raw_data.num["price_usd"],
             market_cap |-> raw_data.num["market_cap"],
             volume_24h |-> raw_data.num["volume_24h"],
             price_change_24h |-> raw_data.num["price_change_24h"],
             source |-> s]

\* the loop body for the entity, lines 141-169: add the raw record, normalize,
\* add the normalized row and count; an element that is no mapping raises at
\* .get and is counted as failed (coin_id being bound by an earlier entity)
ProcessRecord ==
    /\ rec.stage = "fetched"
    /\ LET normalized == IF rec.raw_data.mapping
                         THEN normalize_data(rec.source, rec.raw_data)
                         ELSE NoRow
       IN rec' = [rec EXCEPT !.stage = "processed",
                             !.normalized = normalized,
                             !.records_processed = IF normalized # NoRow THEN 1 ELSE 0,
                             !.records_failed = IF normalized # NoRow THEN 0 ELSE 1]
    /\ UNCHANGED <<now, runTable, ckTable, rawCount, priceCount, pc, cur, sess, loc,
                   ingestRes, all_results, invocations, fetched, faults, api>>

\* line 172: the commit writes the pending CryptoPrice to crypto_prices
CommitRecord ==
    /\ rec.stage = "processed"
    /\ rec' = [rec EXCEPT !.stage = "committed", !.stored = rec.normalized]
    /\ UNCHANGED <<now, runTable, ckTable, rawCount, priceCount, pc, cur, sess, loc,
                   ingestRes, all_results, invocations, fetched, faults, api>>

\* api/main.py:100: CryptoPriceResponse.from_orm(r) runs the validator on each
\* numeric field of a stored row
ServeRecord ==
    /\ rec.stage = "committed"
    /\ rec.stored # NoRow
    /\ rec' = [rec EXCEPT !.stage = "served",
                          !.served = [f \in DOMAIN rec.stored |->
                                        IF f \in NumericFields
                                        THEN validate_numeric(rec.stored[f])
                                        ELSE rec.stored[f]]]
    /\ UNCHANGED <<now, runTable, ckTable, rawCount, priceCount, pc, cur, sess, loc,
                   ingestRes, all_results, invocations, fetched, faults, api>>

\* a fetch has returned the entity; nothing else is going on
InitRecord ==
    /\ now = 0
    /\ runTable = {}
    /\ ckTable = {}
    /\ rawCount = [s \in Sources |-> 0]
    /\ priceCount = [s \in Sources |-> 0]
    /\ pc = [p \in Procs |-> "idle"]
    /\ cur = [p \in Procs |-> 1]
    /\ sess = [p \in Procs |-> FreshSession]
    /\ loc = [p \in Procs |-> NoLocals]
    /\ ingestRes = [p \in Procs |-> NoResults]
    /\ all_results = [p \in Procs |-> [entries |-> NoResults, overall_status |-> "success"]]
    /\ invocations = 0
    /\ fetched = 0
    /\ faults = 0
    /\ api = NoApi
    /\ \E s \in Sources : \E raw \in RawRecords(s) :
         rec = [stage |-> "fetched", source |-> s, raw_data |-> raw,
                normalized |-> NoRow, records_processed |-> 0, records_failed |-> 0,
                stored |-> NoRow, served |-> NoRow]

NextRecord ==
    \/ ProcessRecord
    \/ CommitRecord
    \/ ServeRecord

SpecRecord == InitRecord /\ [][NextRecord]_vars

InRange(v) == v = Absent \/ (v.v >= 0 /\ v.v <= NumericLimit)
Stored == rec.stage \in {"committed", "served"} /\ rec.stored # NoRow

\* C16: every stored NormalizedPrice row has each numeric field absent or in
\* [0, NumericLimit]: a source value out of range is stored as absent, a value
\* in range is stored as it is.
C16_StoredFieldsInRange ==
    Stored =>
        \A f \in NumericFields :
            /\ InRange(rec.stored[f])
            /\ rec.stored[f] = IF InRange(rec.raw_data.num[f])
                               THEN rec.raw_data.num[f] ELSE Absent

\* C17: the validator maps a numeric field below 0 or above the limit to None
\* and returns any other value, None included, unchanged; the object is built
\* whatever the numbers are, and validating the result again changes nothing.
C17_ValidatorClampsToNone ==
    /\ (rec.stage = "served") =>
         /\ rec.served # NoRow
         /\ \A f \in NumericFields :
              /\ rec.served[f] = IF InRange(rec.stored[f]) THEN rec.stored[f] ELSE Absent
              /\ validate_numeric(rec.served[f]) = rec.served[f]
         /\ \A f \in DOMAIN rec.stored \ NumericFields : rec.served[f] = rec.stored[f]
    /\ (rec.stage = "committed" /\ rec.stored # NoRow) => ENABLED ServeRecord

\* C17 witness: a served row whose negative price and over-limit volume became
\* None, whose market cap at the limit and zero price change were kept
C17_Witness ==
    /\ rec.stage = "served"
    /\ rec.stored.price_usd = Num(0 - 1) /\ rec.served.price_usd = Absent
    /\ rec.stored.volume_24h = Num(NumericLimit + 1) /\ rec.served.volume_24h = Absent
    /\ rec.stored.market_cap = Num(NumericLimit) /\ rec.served.market_cap = Num(NumericLimit)
    /\ rec.stored.price_change_24h = Num(0) /\ rec.served.price_change_24h = Num(0)

Processed == rec.stage \in {"processed", "committed", "served"}

\* C18: an entity with id and symbol but no price is normalized to a row with
\* price_usd absent and is counted as processed; an entity with neither id nor
\* symbol is normalized to None, counted in records_failed and not stored.
C18_MissingFields ==
    (Processed /\ rec.raw_data.mapping) =>
        /\ (/\ rec.raw_data.has_id /\ rec.raw_data.has_symbol
            /\ rec.raw_data.num["price_usd"] = Absent
            /\ \A f \in NumericFields : rec.raw_data.num[f] # Text) =>
               /\ rec.normalized # NoRow
               /\ rec.normalized.price_usd = Absent
               /\ rec.records_failed = 0
        /\ (~rec.raw_data.has_id /\ ~rec.raw_data.has_symbol) =>
               /\ rec.normalized = NoRow
               /\ rec.records_failed = 1
               /\ rec.stage # "processed" => rec.stored = NoRow

\* --------------------------------------------------- claims C21 .. C30
\* C21: after an ingest that returned, the checkpoint is success with no
\* last_error; after an ingest that raised, the checkpoint is failed and its
\* last_error is the message of that failure.
C21_CheckpointReflectsLastRun ==
    \A p \in Procs :
        Left(p) =>
            LET res == ingestRes[p][Src(p)]
                ck == get_checkpoint(Src(p))
            IN /\ ck # NoRow
               /\ IsReturn(res) => (ck.last_run_status = "success" /\ ck.last_error = NoError)
               /\ IsRaise(res) => (ck.last_run_status = "failed" /\ ck.last_error = res.raised)

\* the rows that the invocation now running (or the last one) inserted
RowsOfInvocation == {r \in runTable : r.invocation = invocations}

\* the sources run_all has called so far, in order
Called(p) ==
    IF pc[p] \in {"idle"} THEN 0
    ELSE IF pc[p] \in {"create"} \cup {"exists", "mark", "fetch", "loop", "upd_query",
                       "upd_commit", "finalize", "fail_query", "fail_commit",
                       "fail_finalize"}
    THEN cur[p] - 1
    ELSE IF pc[p] = "left" THEN cur[p]
    ELSE Len(SourceOrder)

\* C22: the sources are ingested one at a time in the order coinpaprika,
\* coingecko, csv: the ingests that have ended are exactly those of the sources
\* before the current one, and at most one RunRecord of the invocation is
\* running.
C22_OneSourceAtATime ==
    /\ \A p \in Procs :
         pc[p] # "idle" =>
             \A i \in 1 .. Len(SourceOrder) :
                 (ingestRes[p][SourceOrder[i]] # NoRow) <=> (i <= Called(p))
    /\ Cardinality({r \in RowsOfInvocation : r.status = "running"}) <= 1
    /\ \A r \in RowsOfInvocation :
         (r.status = "running" /\ InProgress(1)) => r.run_id = loc[1].run_id

\* C22 witness: coingecko's row is running while coinpaprika's row of the same
\* invocation is finalized and csv has not been called
C22_Witness ==
    /\ pc[1] = "fetch"
    /\ Src(1) = "coingecko"
    /\ \E r \in RowsOfInvocation : r.source = "coinpaprika" /\ r.status \in Terminal
    /\ \E r \in RowsOfInvocation : r.source = "coingecko" /\ r.status = "running"
    /\ ingestRes[1]["csv"] = NoRow

\* every step of run_all and of the ingest it is in; the invocation itself is
\* triggered from outside
RunAllStep(p) ==
    \/ IngestCreate(p)
    \/ CsvExists(p)
    \/ IngestMark(p)
    \/ IngestFetch(p)
    \/ IngestRecord(p)
    \/ IngestFinalCommit(p)
    \/ UpdateQuery(p)
    \/ UpdateCommit(p)
    \/ IngestFinalize(p)
    \/ FailQuery(p)
    \/ FailCommit(p)
    \/ FailFinalize(p)
    \/ RunAllCollect(p)
    \/ RunAllReturn(p)

\* every call returns or raises in finite time: a started invocation keeps
\* taking steps
SpecLive == Init /\ [][Next]_vars /\ \A p \in Procs : WF_vars(RunAllStep(p))

\* C23: every invocation of run_all returns, and on the way each source is
\* called once: the current source only ever moves one forward, and an ingest
\* is only entered for a source that has no outcome yet.
C23_RunAllReturns ==
    /\ \A p \in Procs : (pc[p] = "create") ~> (pc[p] = "done")
    /\ [][\A p \in Procs :
            /\ (pc[p] # "idle" /\ pc'[p] # "create" /\ cur'[p] # cur[p]) => FALSE
            /\ (pc[p] = "left" /\ pc'[p] = "create") => cur'[p] = cur[p] + 1
            /\ (pc[p] = "left" /\ pc'[p] = "return") => cur[p] = Len(SourceOrder)
            /\ (pc'[p] = "create" /\ pc[p] # "create") =>
                   ingestRes'[p][SourceOrder[cur'[p]]] = NoRow]_vars

\* C23 witness: the second invocation has returned with coinpaprika and csv
\* failed and coingecko succeeded
C23_Witness ==
    /\ pc[1] = "done"
    /\ invocations = 2
    /\ FailedSources(1) = {"coinpaprika", "csv"}
    /\ IsReturn(ingestRes[1]["coingecko"])

\* C25: inside the loop a commit is issued only by an iteration that raised
\* records_processed to a positive multiple of BatchSize: an iteration that
\* commits rows has counted a record as processed and reached such a multiple.
C25_CommitOnlyOnNewBatch ==
    [][\A p \in Procs :
         (pc[p] = "loop" /\ pc'[p] = "loop" /\ rawCount' # rawCount) =>
             /\ loc'[p].records_processed > loc[p].records_processed
             /\ loc'[p].records_processed % BatchSize = 0]_vars

\* C26: the checkpoint is written before the RunRecord is finalized and both
\* after the data rows are committed: nothing is pending when the checkpoint
\* is written, and when the run's RunRecord is success or failed the
\* checkpoint exists and carries that same status, never running.
C26_CheckpointBeforeFinalize ==
    \A p \in Procs :
        /\ (pc[p] \in {"upd_query", "upd_commit", "finalize", "fail_commit", "fail_finalize"}) =>
              (sess[p].pendRaw = 0 /\ sess[p].pendPrice = 0)
        /\ (pc[p] \in {"finalize", "fail_finalize"}) =>
              /\ get_checkpoint(Src(p)) # NoRow
              /\ get_checkpoint(Src(p)).last_run_status \in Terminal
              /\ RunRow(loc[p].run_id).status = "running"
        /\ (Left(p) /\ loc[p].created /\ RunRow(loc[p].run_id).status \in Terminal) =>
              /\ get_checkpoint(Src(p)) # NoRow
              /\ get_checkpoint(Src(p)).last_run_status = RunRow(loc[p].run_id).status

\* C26 witness: a run that stored a row has ended as success on a checkpoint
\* that an earlier run had created, checkpoint and RunRecord both success
C26_Witness ==
    /\ Left(1)
    /\ loc[1].had_ck
    /\ loc[1].records_processed = 1
    /\ RunRow(loc[1].run_id).status = "success"
    /\ get_checkpoint(Src(1)).last_run_status = "success"
    /\ rawCount[Src(1)] = loc[1].raw0 + 1

\* C28: a run that ended in success has counted each fetched entity once:
\* records_processed + records_failed is the number of entities fetched.
C28_EveryEntityCountedOnce ==
    \A p \in Procs :
        (Left(p) /\ IsReturn(ingestRes[p][Src(p)])) =>
            LET r == RunRow(loc[p].run_id)
            IN /\ r.status = "success"
               /\ r.records_processed + r.records_failed = loc[p].n
               /\ ingestRes[p][Src(p)].returned.records_processed = r.records_processed
               /\ ingestRes[p][Src(p)].returned.records_failed = r.records_failed

\* C28 witness: a successful run of two entities, one processed and one failed
C28_Witness ==
    /\ Left(1)
    /\ IsReturn(ingestRes[1][Src(1)])
    /\ loc[1].n = 2
    /\ RunRow(loc[1].run_id).records_processed = 1
    /\ RunRow(loc[1].run_id).records_failed = 1

\* C29: while no run of a source is in progress, the checkpoint's counter is
\* the sum of records_processed over the source's success RunRecords (0
\* without a checkpoint).
C29_CounterMatchesSuccessRows ==
    \A s \in Sources :
        (~\E p \in Procs : Src(p) = s /\ InProgress(p)) =>
            (IF get_checkpoint(s) = NoRow THEN 0 ELSE get_checkpoint(s).records_processed)
                = SumProcessed({r \in RunRows(s) : r.status = "success"})

\* C30: a successful run that fetched n entities has added n RawRecord rows
\* and records_processed NormalizedPrice rows; a run that did not end in
\* success, whose RunRecord reports 0 records processed, has added no
\* NormalizedPrice row.
C30_RowsMatchCounts ==
    \A p \in Procs :
        (Left(p) /\ loc[p].created) =>
            LET s == Src(p)
                r == RunRow(loc[p].run_id)
            IN /\ r.status = "success" =>
                    /\ rawCount[s] - loc[p].raw0 = loc[p].n
                    /\ priceCount[s] - loc[p].price0 = r.records_processed
               /\ r.status # "success" =>
                    /\ r.records_processed = 0
                    /\ priceCount[s] = loc[p].price0

\* ------------------------------------------------ csv column aliases
\* SpecCsv follows one attribute of one csv row through normalize_data's
\* column lookup (csv_source.py:72-98).

\* a cell of the row: the column is not in the file, the cell is empty (NaN),
\* a number, or text
NoColumn == [kind |-> "nocolumn", v |-> 0]
NaN == [kind |-> "nan", v |-> 0]
Cells == {NoColumn, NaN, Text} \cup {Num(x) : x \in 1 .. MaxCell}

\* the columns tried for an attribute, in the order of the nested row.get calls
Aliases(f) ==
    IF f = "price_usd" THEN <<"price", "Price", "price_usd", "current_price">>
    ELSE IF f = "market_cap" THEN <<"market_cap", "Market_Cap", "marketcap">>
    ELSE IF f = "volume_24h" THEN <<"volume", "Volume", "volume_24h">>
    ELSE <<"price_change", "Price_Change", "change_24h">>

AliasSet(f) == {Aliases(f)[i] : i \in 1 .. Len(Aliases(f))}

\* CsvGet with the bug of passing over a column whose cell is empty
RECURSIVE CsvGetSkipNaN(_, _)
CsvGetSkipNaN(row, aliases) ==
    IF aliases = <<>> THEN NoColumn
    ELSE IF row[Head(aliases)] \notin {NoColumn, NaN} THEN row[Head(aliases)]
    ELSE CsvGetSkipNaN(row, Tail(aliases))

\* row.get(a1, row.get(a2, ...)): the cell of the first column that is in the
\* row; None (here NoColumn) when none is
RECURSIVE CsvGet(_, _)
CsvGet(row, aliases) ==
    IF aliases = <<>> THEN NoColumn
    ELSE IF row[Head(aliases)] # NoColumn THEN row[Head(aliases)]
    ELSE CsvGet(row, Tail(aliases))

\* "if pd.notna(x): x = float(x) else: x = None"; Text stands for the
\* ValueError float() raises, which makes normalize_data return None
CsvField(row, f) ==
    LET x == CsvGet(row, Aliases(f))
    IN IF x \in {NoColumn, NaN} THEN Absent ELSE x

NormalizeCsvField ==
    /\ rec.stage = "row"
    /\ rec' = [stage |-> "resolved", attribute |-> rec.attribute, row |-> rec.row,
               value |-> CsvField(rec.row, rec.attribute)]
    /\ UNCHANGED <<now, runTable, ckTable, rawCount, priceCount, pc, cur, sess, loc,
                   ingestRes, all_results, invocations, fetched, faults, api>>

\* pd.read_csv has returned the row; nothing else is going on
InitCsv ==
    /\ now = 0
    /\ runTable = {}
    /\ ckTable = {}
    /\ rawCount = [s \in Sources |-> 0]
    /\ priceCount = [s \in Sources |-> 0]
    /\ pc = [p \in Procs |-> "idle"]
    /\ cur = [p \in Procs |-> 1]
    /\ sess = [p \in Procs |-> FreshSession]
    /\ loc = [p \in Procs |-> NoLocals]
    /\ ingestRes = [p \in Procs |-> NoResults]
    /\ all_results = [p \in Procs |-> [entries |-> NoResults, overall_status |-> "success"]]
    /\ invocations = 0
    /\ fetched = 0
    /\ faults = 0
    /\ api = NoApi
    /\ \E f \in NumericFields : \E r \in [AliasSet(f) -> Cells] :
         rec = [stage |-> "row", attribute |-> f, row |-> r]

NextCsv == NormalizeCsvField

SpecCsv == InitCsv /\ [][NextCsv]_vars

\* the positions in the alias list of f whose column is in the row
PresentAliases(row, f) == {i \in 1 .. Len(Aliases(f)) : row[Aliases(f)[i]] # NoColumn}
FirstPresent(row, f) ==
    CHOOSE i \in PresentAliases(row, f) : \A j \in PresentAliases(row, f) : i <= j

\* C27: each attribute is read from the first column of its alias list that is
\* in the row: an empty cell there gives an absent field whatever the later
\* aliases hold, and a row with none of the columns gives an absent field.
C27_FirstPresentAliasWins ==
    /\ Aliases("price_usd") = <<"price", "Price", "price_usd", "current_price">>
    /\ Aliases("market_cap") = <<"market_cap", "Market_Cap", "marketcap">>
    /\ Aliases("volume_24h") = <<"volume", "Volume", "volume_24h">>
    /\ Aliases("price_change_24h") = <<"price_change", "Price_Change", "change_24h">>
    /\ (rec.stage = "resolved") =>
         IF PresentAliases(rec.row, rec.attribute) = {}
         THEN rec.value = Absent
         ELSE LET c == rec.row[Aliases(rec.attribute)[FirstPresent(rec.row, rec.attribute)]]
              IN rec.value = IF c = NaN THEN Absent ELSE c

\* C27 witness: the price column is empty, the lower alias Price holds a
\* number, and the price is absent
C27_Witness ==
    /\ rec.stage = "resolved"
    /\ rec.attribute = "price_usd"
    /\ rec.row["price"] = NaN
    /\ rec.row["Price"] = Num(1)
    /\ rec.value = Absent

\* ------------------------------------------------------ GET /data
\* SpecData follows one request to the /data endpoint (api/main.py:53-104)
\* on a crypto_prices table of up to MaxRows rows.

\* symbol / source not given (None) or empty: "if symbol:" is false
NoFilter == ""

PriceRows ==
    [timestamp : 0 .. MaxTime, symbol : {"BTC", "ETH"}, source : {"coingecko", "csv"}]

Tables == UNION {[1 .. n -> PriceRows] : n \in 0 .. MaxRows}

LimitInputs == {MinLimit - 1, MinLimit, MinLimit + 1, MaxLimit, MaxLimit + 1}
OffsetInputs == (MinOffset - 1) .. MaxRows

\* CryptoPrice.symbol.ilike(f"%{symbol}%") on the symbols that occur
ILike(sym, q) == (q = "btc" /\ sym = "BTC") \/ (q = "eth" /\ sym = "ETH")

\* lines 74-81: the rows the query selects
Filtered(table, req) ==
    {i \in 1 .. Len(table) :
        /\ req.symbol # NoFilter => ILike(table[i].symbol, req.symbol)
        /\ req.source # NoFilter => table[i].source = req.source}

\* order_by(CryptoPrice.timestamp.desc()): any order of the rows in which
\* timestamps do not increase
Orderings(table, ids) ==
    {o \in [1 .. Cardinality(ids) -> ids] :
        /\ \A i, j \in 1 .. Cardinality(ids) : i # j => o[i] # o[j]
        /\ \A i, j \in 1 .. Cardinality(ids) :
               i < j => table[o[i]].timestamp >= table[o[j]].timestamp}

\* Page with the bug of ignoring the offset
PageFromStart(order, offset, limit) ==
    IF limit >= Len(order) THEN order ELSE SubSeq(order, 1, limit)

\* .offset(offset).limit(limit).all()
Page(order, offset, limit) ==
    IF offset >= Len(order) THEN <<>>
    ELSE SubSeq(order, offset + 1,
                IF offset + limit <= Len(order) THEN offset + limit ELSE Len(order))

\* the Query(...) constraints of lines 55-56
ValidQuery(req) ==
    /\ req.limit >= MinLimit
    /\ req.limit <= MaxLimit
    /\ req.offset >= MinOffset

\* one GET /data: rejected with 422 by the parameter validation, or answered
GetData ==
    /\ api.response = NoRow
    /\ \E limit \in LimitInputs, offset \in OffsetInputs,
          symbol \in {NoFilter, "btc"}, source \in {NoFilter, "csv"} :
         LET req == [limit |-> limit, offset |-> offset,
                     symbol |-> symbol, source |-> source]
             ids == Filtered(api.table, req)
         IN IF ~ValidQuery(req)
            THEN api' = [api EXCEPT !.request = req, !.response = [status |-> 422]]
            ELSE \E order \in Orderings(api.table, ids) :
                   api' = [api EXCEPT
                             !.request = req,
                             !.response = [status |-> 200,
                                           total_records |-> Cardinality(ids),
                                           page |-> (offset \div limit) + 1,
                                           limit |-> limit,
                                           data |-> Page(order, offset, limit)]]
    /\ UNCHANGED <<now, runTable, ckTable, rawCount, priceCount, pc, cur, sess, loc,
                   ingestRes, all_results, invocations, fetched, faults, rec>>

InitData ==
    /\ now = 0
    /\ runTable = {}
    /\ ckTable = {}
    /\ rawCount = [s \in Sources |-> 0]
    /\ priceCount = [s \in Sources |-> 0]
    /\ pc = [p \in Procs |-> "idle"]
    /\ cur = [p \in Procs |-> 1]
    /\ sess = [p \in Procs |-> FreshSession]
    /\ loc = [p \in Procs |-> NoLocals]
    /\ ingestRes = [p \in Procs |-> NoResults]
    /\ all_results = [p \in Procs |-> [entries |-> NoResults, overall_status |-> "success"]]
    /\ invocations = 0
    /\ fetched = 0
    /\ faults = 0
    /\ rec = NoRecord
    /\ \E table \in Tables : api = [table |-> table, request |-> NoRow, response |-> NoRow]

NextData == GetData

SpecData == InitData /\ [][NextData]_vars

Answered == api.response # NoRow

\* C24: a request with limit outside 1..100 or offset below 0 is answered 422
\* and nothing else; any other request is answered with limit echoed,
\* total_records the size of the whole filtered set, and as data the rows at
\* positions offset+1 .. offset+limit of the filtered set in an order of
\* non-increasing timestamp, at most limit of them.
C24_DataPagination ==
    Answered =>
        LET req == api.request
            res == api.response
            ids == Filtered(api.table, req)
        IN IF req.limit < 1 \/ req.limit > 100 \/ req.offset < 0
           THEN res = [status |-> 422]
           ELSE /\ res.status = 200
                /\ res.limit = req.limit
                /\ res.total_records = Cardinality(ids)
                /\ Len(res.data) <= req.limit
                /\ \E order \in Orderings(api.table, ids) :
                     /\ \A i \in 1 .. Len(res.data) :
                          /\ req.offset + i <= Cardinality(ids)
                          /\ res.data[i] = order[req.offset + i]
                     /\ \A k \in 1 .. Cardinality(ids) :
                          (k > req.offset /\ k <= req.offset + req.limit)
                              => k - req.offset <= Len(res.data)

\* C24 witness: three rows match, limit 1 and offset 1 return one row that is
\* older than another row of the table, and total_records is 3
C24_Witness ==
    /\ Answered
    /\ api.request.limit = 1
    /\ api.request.offset = 1
    /\ api.response.status = 200
    /\ api.response.total_records = 3
    /\ Len(api.response.data) = 1
    /\ \E i \in 1 .. Len(api.table) :
         api.table[i].timestamp > api.table[api.response.data[1]].timestamp


\* ------------------------------------------------------------------------
\* Frame of a run whose fetch raised
\* ------------------------------------------------------------------------
\* the rows of the two tables that do not belong to the attempt of session p
OtherRunRows(table, p) == {r \in table : r.run_id # loc[p].run_id}
OtherCheckpoints(table, p) == {c \in table : c.source # Src(p)}

\* C31: if the fetch of a source raises, no step of the run from the raise to
\* the moment ingest() is left changes the raw or the normalized table, a
\* RunRecord other than its own or a checkpoint of another source, and when
\* ingest() is left both tables of the source hold what they held when the
\* run began.
C31_FetchFailureFrame ==
    [][\A p \in Procs :
          /\ (loc'[p].fetchRaised /\ ~Left(p)) =>
                /\ rawCount' = rawCount
                /\ priceCount' = priceCount
                /\ OtherRunRows(runTable', p) = OtherRunRows(runTable, p)
                /\ OtherCheckpoints(ckTable', p) = OtherCheckpoints(ckTable, p)
          /\ (loc'[p].fetchRaised /\ pc'[p] = "left") =>
                /\ rawCount'[Src(p)] = loc'[p].raw0
                /\ priceCount'[Src(p)] = loc'[p].price0]_vars

\* a run whose fetch raised has written its failed RunRecord and its failed
\* checkpoint while another source has a checkpoint and stored rows
C31_Witness ==
    \E p \in Procs, o \in Sources :
        /\ Left(p) /\ loc[p].fetchRaised /\ loc[p].created
        /\ RunRow(loc[p].run_id).status = "failed"
        /\ get_checkpoint(Src(p)) # NoRow
        /\ get_checkpoint(Src(p)).last_run_status = "failed"
        /\ o # Src(p)
        /\ get_checkpoint(o) # NoRow
        /\ get_checkpoint(o).last_run_status = "success"
        /\ rawCount[o] > 0


\* ------------------------------------------------------------------------
\* The checkpoint's cursor
\* ------------------------------------------------------------------------
\* entity i of a fetch carries the source-native id i; nothing fetched leaves
\* the empty id
LastFetchedId(p) == IF loc[p].n = 0 THEN EmptyId ELSE loc[p].n

\* C32: after a run that failed the checkpoint's last_processed_id is the empty
\* string and its last_processed_timestamp is a time of this run; after a run
\* that succeeded last_processed_id is the id of the last fetched entity, or
\* the empty string when nothing was fetched.
C32_CursorAfterRun ==
    \A p \in Procs :
        Left(p) =>
            LET ck == get_checkpoint(Src(p))
                res == ingestRes[p][Src(p)]
            IN /\ IsRaise(res) =>
                    /\ ck # NoRow
                    /\ ck.last_processed_id = EmptyId
                    /\ ck.last_processed_timestamp >= loc[p].start_time
               /\ IsReturn(res) =>
                    /\ ck # NoRow
                    /\ ck.last_processed_id = LastFetchedId(p)


\* C33: whenever ingest() of a source has returned control, a checkpoint of the
\* source exists and its last_run_status is the terminal status of the
\* RunRecord the attempt created: success with success, failed with failed.
C33_CheckpointMatchesRunRecord ==
    \A p \in Procs :
        (Left(p) /\ loc[p].created) =>
            LET ck == get_checkpoint(Src(p))
                r == RunRow(loc[p].run_id)
            IN /\ ck # NoRow
               /\ ck.last_run_status \in Terminal
               /\ ck.last_run_status = r.status


\* ------------------------------------------------------------------------
\* Two concurrent invocations of run_all
\* ------------------------------------------------------------------------
\* api/main.py run_etl(): GET /run-etl builds an orchestrator and calls
\* run_all(); the handler is synchronous, so two requests run in two threads,
\* each with the session its run_all opens.
RunEtl(p) ==
    /\ pc[p] = "idle"
    /\ invocations < MaxInvocations
    /\ invocations' = invocations + 1
    /\ ingestRes' = [ingestRes EXCEPT ![p] = NoResults]
    /\ pc' = [pc EXCEPT ![p] = "create"]
    /\ cur' = [cur EXCEPT ![p] = 1]
    /\ sess' = [sess EXCEPT ![p] = FreshSession]
    /\ loc' = [loc EXCEPT ![p] = NoLocals]
    /\ all_results' = [all_results EXCEPT ![p] =
                         [entries |-> NoResults, overall_status |-> "success"]]
    /\ UNCHANGED <<now, runTable, ckTable, rawCount, priceCount, fetched, faults>>
    /\ UNCHANGED <<rec, api>>

\* the time of an invocation that ended before the clock of the model started
EarlierTime == NoTime - 1

\* the locals of the earlier invocation's ingest of source s: the first source
\* fetched one entity and stored it, the fetch of the others raised
EarlierLocals(s) ==
    IF s = SourceOrder[1]
    THEN [NoLocals EXCEPT !.run_id = <<s, EarlierTime \div TicksPerSecond>>,
                          !.start_time = EarlierTime, !.created = TRUE,
                          !.n = 1, !.idx = 1, !.records_processed = 1,
                          !.last_id = 1, !.coin_bound = TRUE]
    ELSE [NoLocals EXCEPT !.run_id = <<s, EarlierTime \div TicksPerSecond>>,
                          !.start_time = EarlierTime, !.created = TRUE,
                          !.fetchRaised = TRUE, !.e = "fetch error"]

\* the etl_run_metadata row the earlier invocation left for source s
EarlierRunRow(s) ==
    LET l == EarlierLocals(s)
        r == [run_id |-> l.run_id, source |-> s, start_time |-> l.start_time,
              end_time |-> NoTime, status |-> "running",
              records_processed |-> 0, records_failed |-> 0,
              duration_seconds |-> NoTime, error_message |-> NoError,
              invocation |-> 0]
    IN IF l.fetchRaised THEN FailedRow(r, l, EarlierTime)
       ELSE SuccessRow(r, l, EarlierTime)

\* the etl_checkpoints row the earlier invocation inserted for source s
EarlierCheckpoint(s) ==
    LET l == EarlierLocals(s)
    IN IF l.fetchRaised
       THEN CheckpointAfter(s, NoRow, EmptyId, 0, "failed", l.e, EarlierTime)
       ELSE CheckpointAfter(s, NoRow, l.last_id, l.records_processed,
                            "success", NoError, EarlierTime)

\* two requests are about to arrive, at an empty database or at the database
\* an earlier invocation left; no storage fault occurs
InitConc ==
    /\ now = 0
    /\ \E earlier \in BOOLEAN :
        /\ runTable = IF earlier THEN {EarlierRunRow(s) : s \in Sources} ELSE {}
        /\ ckTable = IF earlier THEN {EarlierCheckpoint(s) : s \in Sources} ELSE {}
        /\ rawCount = [s \in Sources |->
                         IF earlier THEN EarlierLocals(s).n ELSE 0]
        /\ priceCount = [s \in Sources |->
                           IF earlier THEN EarlierLocals(s).records_processed ELSE 0]
    /\ pc = [p \in Procs |-> "idle"]
    /\ cur = [p \in Procs |-> 1]
    /\ sess = [p \in Procs |-> FreshSession]
    /\ loc = [p \in Procs |-> NoLocals]
    /\ ingestRes = [p \in Procs |-> NoResults]
    /\ all_results = [p \in Procs |-> [entries |-> NoResults, overall_status |-> "success"]]
    /\ invocations = 0
    /\ fetched = 0
    /\ faults = MaxFaults
    /\ api = NoApi
    /\ rec = NoRecord

\* the two invocations, interleaved step by step, each followed through the
\* ingest of its first source
NextConc ==
    \E p \in Procs :
        \/ RunEtl(p)
        \/ IngestCreate(p)
        \/ IngestMark(p)
        \/ IngestFetch(p)
        \/ IngestRecord(p)
        \/ IngestFinalCommit(p)
        \/ UpdateQuery(p)
        \/ UpdateCommit(p)
        \/ IngestFinalize(p)
        \/ FailQuery(p)
        \/ FailCommit(p)
        \/ FailFinalize(p)

SpecConc == InitConc /\ [][NextConc]_vars

\* both invocations have left the ingest of the same source
BothLeft == \A p \in Procs : Left(p) /\ Src(p) = SourceOrder[1]

\* the cumulative counter before either of the two runs began: the smaller of
\* the values the two runs found at their start
CounterBefore ==
    IF loc[1].ck0 <= loc[2].ck0 THEN loc[1].ck0 ELSE loc[2].ck0

\* C34: when two concurrent invocations ingest the same source and both runs
\* end in success, the checkpoint's cumulative counter is its value before plus
\* the records_processed of both runs.
C34_NoLostUpdate ==
    (BothLeft /\ \A p \in Procs : IsReturn(ingestRes[p][Src(p)])) =>
        LET ck == get_checkpoint(SourceOrder[1])
        IN /\ ck # NoRow
           /\ ck.records_processed =
                CounterBefore
                + ingestRes[1][Src(1)].returned.records_processed
                + ingestRes[2][Src(2)].returned.records_processed

\* update_checkpoint() of both runs read that the source has no checkpoint
BothReadNoCheckpoint ==
    \A p \in Procs : loc[p].created /\ ~loc[p].had_ck /\ loc[p].ck = NoRow

\* C35: when two concurrent invocations perform the first ingestion of a
\* source and both read that no checkpoint exists, every RunRecord either of
\* them created is success or failed once both have left the ingest.
C35_FirstIngestionFinalized ==
    (BothLeft /\ BothReadNoCheckpoint) =>
        \A p \in Procs : RunRow(loc[p].run_id).status \in Terminal


\* ------------------------------------------------------------------------
\* GET /stats
\* ------------------------------------------------------------------------
\* api/main.py get_stats(): one StatsResponse per checkpoint row of the
\* committed table; the duration is last_run_end - last_run_start when both
\* are set
get_stats ==
    {[source |-> checkpoint.source,
      total_records |-> checkpoint.records_processed,
      last_run_start |-> checkpoint.last_run_start,
      last_run_end |-> checkpoint.last_run_end,
      last_run_status |-> checkpoint.last_run_status,
      last_run_duration_seconds |->
          IF checkpoint.last_run_start # NoTime /\ checkpoint.last_run_end # NoTime
          THEN Num(checkpoint.last_run_end - checkpoint.last_run_start)
          ELSE Absent,
      records_processed |-> checkpoint.records_processed,
      last_error |-> checkpoint.last_error] : checkpoint \in ckTable}

\* the RunRecord of source s that started last
MostRecentRun(s) ==
    CHOOSE r \in RunRows(s) : \A q \in RunRows(s) : q.start_time <= r.start_time

\* C36: in every committed state the last run duration /stats reports for a
\* source is not negative, also while a later run of the source is in progress,
\* and when the checkpoint is not running it is the duration_seconds of the
\* source's most recent RunRecord, up to one tick of the clock.
C36_StatsDuration ==
    \A st \in get_stats :
        st.last_run_duration_seconds # Absent =>
            LET d == st.last_run_duration_seconds.v
            IN /\ d >= 0
               /\ (st.last_run_status # "running" /\ RunRows(st.source) # {}) =>
                     LET r == MostRecentRun(st.source)
                     IN r.duration_seconds # NoTime =>
                          /\ d - r.duration_seconds <= 1
                          /\ r.duration_seconds - d <= 1

====
